---- MODULE Spec2Model ----
(***************************************************************************)
(* Pricing / discount engine of the Kachidham backend: DiscountService     *)
(* (discountService.js) and OrderService (orderService.js) over the        *)
(* persisted Discount, DiscountUsage, Order and ProductVariant tables.     *)
(*                                                                         *)
(* Money is in whole rupees.  Catalogue prices are multiples of 100 and    *)
(* percentages are integers, so every percentage amount is a whole number  *)
(* and toFixed(2) leaves it unchanged.  A nullable numeric column is 0     *)
(* when unset: the code tests these columns by truthiness only.            *)
(***************************************************************************)
EXTENDS Integers, Sequences, FiniteSets, TLC

Null == "null"

\* ------------------------------------------------------------------ bounds
MaxRequests == 2

\* the value of new Date() during a run
Now == 5

\* ------------------------------------------------------------- catalogue
Users == {"u1"}
Procs == {"p1", "p2"}
DiscountIds == {"d1", "d2"}
ProductIds == {"pA", "pB"}
VariantIds == {"v1"}

Role(u) == IF u = "u1" THEN "CUSTOMER" ELSE "WHOLESALER"

Product(p) ==
  IF p = "pA"
    THEN [id |-> "pA", normalPrice |-> 100, offerPrice |-> 0, status |-> "ACTIVE",
          categoryId |-> "cat1", subcategoryId |-> "sub1"]
    ELSE [id |-> "pB", normalPrice |-> 300, offerPrice |-> 200, status |-> "ACTIVE",
          categoryId |-> "cat2", subcategoryId |-> Null]

Variant(v) == [id |-> v, productId |-> "pA", price |-> 0]

InitialStock == 1

\* subcategoryQuantityPrice rows
QuantityPrices ==
  { [subcategoryId |-> "sub1", quantity |-> 2, priceType |-> "PERCENTAGE",
     value |-> 50, isActive |-> TRUE],
    [subcategoryId |-> "sub2", quantity |-> 5, priceType |-> "PERCENTAGE",
     value |-> 20, isActive |-> TRUE],
    [subcategoryId |-> "sub3", quantity |-> 2, priceType |-> "FIXED_AMOUNT",
     value |-> 450, isActive |-> TRUE],
    [subcategoryId |-> "sub3", quantity |-> 3, priceType |-> "PERCENTAGE",
     value |-> 10, isActive |-> TRUE],
    [subcategoryId |-> "sub3", quantity |-> 4, priceType |-> "FIXED_AMOUNT",
     value |-> 5000, isActive |-> TRUE],
    [subcategoryId |-> "sub3", quantity |-> 1, priceType |-> "PERCENTAGE",
     value |-> 90, isActive |-> FALSE] }

\* createdAt rank of a discount (larger = created later)
CreatedAt(d) == IF d = "d1" THEN 1 ELSE IF d = "d2" THEN 2 ELSE 3

\* d1: the coupon "SAVE", sitewide.  d2: a product discount on pA.
Coupon(type, value, maxDiscount, usageLimit) ==
  [id |-> "d1", name |-> "SAVE", discountType |-> type, discountValue |-> value,
   productId |-> Null, categoryId |-> Null, subcategoryId |-> Null,
   minQuantity |-> 0, userType |-> Null, minOrderAmount |-> 0,
   maxDiscount |-> maxDiscount, usageLimit |-> usageLimit, perUserLimit |-> 1,
   validFrom |-> 0, validUntil |-> 10, isActive |-> TRUE,
   usedCount |-> 0, totalDiscounts |-> 0]

ProductOffer(active) ==
  [id |-> "d2", name |-> "TEN", discountType |-> "PERCENTAGE", discountValue |-> 10,
   productId |-> "pA", categoryId |-> Null, subcategoryId |-> Null,
   minQuantity |-> 0, userType |-> Null, minOrderAmount |-> 0,
   maxDiscount |-> 0, usageLimit |-> 0, perUserLimit |-> 2,
   validFrom |-> 0, validUntil |-> 10, isActive |-> active,
   usedCount |-> 0, totalDiscounts |-> 0]

Catalogues ==
  { [d \in DiscountIds |-> IF d = "d1" THEN Coupon("FIXED_AMOUNT", 500, 0, 1)
                                       ELSE ProductOffer(TRUE)],
    [d \in DiscountIds |-> IF d = "d1" THEN Coupon("PERCENTAGE", 50, 20, 1)
                                       ELSE ProductOffer(FALSE)] }

\* ----------------------------------------------------------- request data
Item(p, v, q) == [productId |-> p, productVariantId |-> v, quantity |-> q]

Carts == { <<Item("pA", "v1", 1)>>,
           <<Item("pA", "v1", 1), Item("pB", Null, 1)>> }

\* a destination state string: its lower-case text, its casing and whether
\* it carries surrounding blanks; NoState is null / undefined / ""
NoState == [text |-> "", cased |-> "lower", padded |-> FALSE]
ShipState(text, cased, padded) == [text |-> text, cased |-> cased, padded |-> padded]
ShipStates == { ShipState("tamil nadu", "title", FALSE) }

Codes == {Null, "SAVE"}

\* ------------------------------------------------------- sequence helpers
RECURSIVE SumSeq(_)
SumSeq(s) == IF s = <<>> THEN 0 ELSE Head(s) + SumSeq(Tail(s))

Max(a, b) == IF a >= b THEN a ELSE b
Min(a, b) == IF a <= b THEN a ELSE b

Amounts(descs) == [i \in 1..Len(descs) |-> descs[i].amount]

\* ------------------------------------------------------ DiscountService
\* In every operator below D is the Discount table and U the DiscountUsage
\* table (a sequence of rows) as read at the time of the call.

UnitPrice(product) ==
  IF product.offerPrice # 0 THEN product.offerPrice ELSE product.normalPrice

UserUsageCount(U, d, u) ==
  Cardinality({i \in 1..Len(U) : U[i].discountId = d /\ U[i].userId = u})

NoDiscountInfo ==
  [id |-> Null, name |-> Null, discountType |-> Null, discountValue |-> 0,
   discountAmount |-> 0, maxDiscountReached |-> FALSE]

\* a user-facing message: its text and the amount it names (0 when none)
Message(text, amount) == [text |-> text, amount |-> amount]
NoMessage == Message(Null, 0)

Invalid(text) ==
  [isValid |-> FALSE, message |-> Message(text, 0), discount |-> NoDiscountInfo]

InvalidMinimum(minOrderAmount) ==
  [isValid |-> FALSE,
   message |-> Message("Minimum order amount required", minOrderAmount),
   discount |-> NoDiscountInfo]

\* findFirst({name: code, isActive: true}), else findUnique({id: code})
FindByCode(D, code) ==
  LET byName == {d \in DOMAIN D : D[d].name = code /\ D[d].isActive}
  IN  IF byName # {} THEN CHOOSE d \in byName : \A e \in byName : CreatedAt(d) <= CreatedAt(e)
      ELSE IF code \in DOMAIN D THEN code
      ELSE Null

PercentOf(amount, value) == (amount * value) \div 100

\* validateDiscount without the maxDiscount cap
validateDiscount_uncapped(D, U, code, userId, orderAmount) ==
  LET d == FindByCode(D, code) IN
  IF d = Null THEN Invalid("Invalid discount code")
  ELSE IF ~D[d].isActive THEN Invalid("Discount is not active")
  ELSE IF Now < D[d].validFrom THEN Invalid("Discount not yet valid")
  ELSE IF Now > D[d].validUntil THEN Invalid("Discount has expired")
  ELSE IF D[d].usageLimit # 0 /\ D[d].usedCount >= D[d].usageLimit
    THEN Invalid("Discount usage limit reached")
  ELSE IF D[d].perUserLimit > 0 /\ userId # Null
          /\ UserUsageCount(U, d, userId) >= D[d].perUserLimit
    THEN Invalid("You have reached the usage limit for this discount")
  ELSE IF orderAmount < D[d].minOrderAmount
    THEN InvalidMinimum(D[d].minOrderAmount)
  ELSE
    LET pct == PercentOf(orderAmount, D[d].discountValue)
        capped == FALSE
        amount == IF D[d].discountType = "PERCENTAGE"
                    THEN (IF capped THEN D[d].maxDiscount ELSE pct)
                    ELSE D[d].discountValue
    IN [isValid |-> TRUE, message |-> NoMessage,
        discount |-> [id |-> d, name |-> D[d].name, discountType |-> D[d].discountType,
                      discountValue |-> D[d].discountValue,
                      discountAmount |-> amount,
                      maxDiscountReached |-> capped]]

validateDiscount(D, U, code, userId, orderAmount) ==
  LET d == FindByCode(D, code) IN
  IF d = Null THEN Invalid("Invalid discount code")
  ELSE IF ~D[d].isActive THEN Invalid("Discount is not active")
  ELSE IF Now < D[d].validFrom THEN Invalid("Discount not yet valid")
  ELSE IF Now > D[d].validUntil THEN Invalid("Discount has expired")
  ELSE IF D[d].usageLimit # 0 /\ D[d].usedCount >= D[d].usageLimit
    THEN Invalid("Discount usage limit reached")
  ELSE IF D[d].perUserLimit > 0 /\ userId # Null
          /\ UserUsageCount(U, d, userId) >= D[d].perUserLimit
    THEN Invalid("You have reached the usage limit for this discount")
  ELSE IF orderAmount < D[d].minOrderAmount
    THEN InvalidMinimum(D[d].minOrderAmount)
  ELSE
    LET pct == PercentOf(orderAmount, D[d].discountValue)
        capped == D[d].discountType = "PERCENTAGE" /\ D[d].maxDiscount # 0
                  /\ pct > D[d].maxDiscount
        amount == IF D[d].discountType = "PERCENTAGE"
                    THEN (IF capped THEN D[d].maxDiscount ELSE pct)
                    ELSE D[d].discountValue
    IN [isValid |-> TRUE, message |-> NoMessage,
        discount |-> [id |-> d, name |-> D[d].name, discountType |-> D[d].discountType,
                      discountValue |-> D[d].discountValue,
                      discountAmount |-> amount,
                      maxDiscountReached |-> capped]]

\* orderBy [{discountValue: 'desc'}, {createdAt: 'desc'}]
Before(D, d, e) ==
  \/ D[d].discountValue > D[e].discountValue
  \/ D[d].discountValue = D[e].discountValue /\ CreatedAt(d) >= CreatedAt(e)

RECURSIVE SortDiscounts(_, _)
SortDiscounts(D, S) ==
  IF S = {} THEN <<>>
  ELSE LET first == CHOOSE d \in S : \A e \in S : Before(D, d, e)
       IN  <<first>> \o SortDiscounts(D, S \ {first})

Eligible(D, U, d, userId) ==
  /\ ~(D[d].userType # Null /\ D[d].userType # "ALL" /\ userId # Null
       /\ Role(userId) # D[d].userType)
  /\ ~(D[d].perUserLimit > 0 /\ userId # Null
       /\ UserUsageCount(U, d, userId) >= D[d].perUserLimit)
  /\ ~(D[d].usageLimit # 0 /\ D[d].usedCount >= D[d].usageLimit)

\* the sequence of discount ids getProductDiscounts returns
getProductDiscounts(D, U, productId, userId) ==
  LET product == Product(productId)
      matching == {d \in DOMAIN D :
                     /\ \/ D[d].productId = productId
                        \/ D[d].categoryId = product.categoryId
                        \/ D[d].subcategoryId = product.subcategoryId
                        \/ (D[d].productId = Null /\ D[d].categoryId = Null
                            /\ D[d].subcategoryId = Null)
                     /\ D[d].isActive
                     /\ D[d].validFrom <= Now
                     /\ D[d].validUntil >= Now}
  IN  SelectSeq(SortDiscounts(D, matching), LAMBDA d : Eligible(D, U, d, userId))

\* index of the first maximum of a non-empty sequence of numbers
FirstMaxIndex(s) ==
  CHOOSE i \in 1..Len(s) :
    /\ \A j \in 1..Len(s) : s[j] <= s[i]
    /\ \A j \in 1..(i - 1) : s[j] < s[i]

NoProductDiscount ==
  [hasDiscount |-> FALSE, discountAmount |-> 0, bestDiscount |-> Null, discountType |-> Null]

calculateProductDiscount(D, U, productId, userId) ==
  LET applicable == getProductDiscounts(D, U, productId, userId)
      price == UnitPrice(Product(productId))
      AmountOf(d) ==
        IF D[d].discountType = "PERCENTAGE"
          THEN LET pct == PercentOf(price, D[d].discountValue)
               IN IF D[d].maxDiscount # 0 /\ pct > D[d].maxDiscount
                    THEN D[d].maxDiscount ELSE pct
        ELSE Min(D[d].discountValue, price)
      amounts == [i \in 1..Len(applicable) |-> AmountOf(applicable[i])]
  IN  IF applicable = <<>> THEN NoProductDiscount
      ELSE LET b == FirstMaxIndex(amounts)
           IN [hasDiscount |-> TRUE, discountAmount |-> amounts[b],
               bestDiscount |-> applicable[b],
               discountType |-> D[applicable[b]].discountType]

NoBest == [id |-> Null, calculatedAmount |-> 0]

\* getBestProductDiscount: scan, keeping a strictly greater amount
RECURSIVE BestScan(_, _, _, _, _)
BestScan(D, discounts, quantity, totalPrice, best) ==
  IF discounts = <<>> THEN best
  ELSE
    LET d == Head(discounts)
        skip == D[d].minQuantity # 0 /\ quantity < D[d].minQuantity
        amount ==
          CASE D[d].discountType = "PERCENTAGE" ->
                 LET pct == PercentOf(totalPrice, D[d].discountValue)
                 IN IF D[d].maxDiscount # 0 THEN Min(pct, D[d].maxDiscount) ELSE pct
            [] D[d].discountType = "FIXED_AMOUNT" -> Min(D[d].discountValue, totalPrice)
            [] D[d].discountType = "BUY_X_GET_Y" ->
                 IF quantity >= D[d].minQuantity THEN D[d].discountValue ELSE 0
            [] OTHER -> 0
        next == IF ~skip /\ amount > best.calculatedAmount
                  THEN [id |-> d, calculatedAmount |-> amount] ELSE best
    IN BestScan(D, Tail(discounts), quantity, totalPrice, next)

getBestProductDiscount(D, discounts, cartItem) ==
  BestScan(D, discounts, cartItem.quantity,
           UnitPrice(cartItem.product) * cartItem.quantity, NoBest)

\* an applied-discount descriptor; discountId is the id of its `discount`
\* object, Null when the descriptor carries none
Descriptor(type, discountId, code, productId, amount) ==
  [type |-> type, discountId |-> discountId, code |-> code,
   productId |-> productId, amount |-> amount]

CartSubtotal(cartItems) ==
  SumSeq([i \in 1..Len(cartItems) |->
            UnitPrice(cartItems[i].product) * cartItems[i].quantity])

RECURSIVE AutoBest(_, _, _, _)
AutoBest(D, U, cartItems, userId) ==
  IF cartItems = <<>> THEN <<>>
  ELSE
    LET item == Head(cartItems)
        productDiscounts == getProductDiscounts(D, U, item.productId, userId)
        best == getBestProductDiscount(D, productDiscounts, item)
        rest == AutoBest(D, U, Tail(cartItems), userId)
    IN IF productDiscounts = <<>> \/ best.id = Null THEN rest
       ELSE <<Descriptor("PRODUCT_LEVEL", Null, Null, item.productId,
                         best.calculatedAmount)>> \o rest

CartResult(subtotal, applied, errors, code) ==
  [subtotal |-> subtotal, totalDiscount |-> SumSeq(Amounts(applied)),
   finalTotal |-> Max(0, subtotal - SumSeq(Amounts(applied))),
   appliedDiscounts |-> applied, errors |-> errors, discountCode |-> code]

calculateCartDiscounts_fallthrough(D, U, cartItems, userId, discountCode) ==
  LET subtotal == CartSubtotal(cartItems)
      validation == validateDiscount(D, U, discountCode, userId, subtotal)
      coupon == IF discountCode # Null /\ validation.isValid
                  THEN <<Descriptor("ORDER_LEVEL", Null, discountCode, Null,
                                    validation.discount.discountAmount)>>
                  ELSE <<>>
  IN CartResult(subtotal, coupon \o AutoBest(D, U, cartItems, userId), <<>>, discountCode)

calculateCartDiscounts(D, U, cartItems, userId, discountCode) ==
  LET subtotal == CartSubtotal(cartItems) IN
  IF discountCode # Null
    THEN LET validation == validateDiscount(D, U, discountCode, userId, subtotal)
         IN IF validation.isValid
              THEN CartResult(subtotal,
                     <<Descriptor("ORDER_LEVEL", Null, discountCode, Null,
                                  validation.discount.discountAmount)>>,
                     <<>>, discountCode)
              ELSE CartResult(subtotal, <<>>, <<validation.message>>, discountCode)
    ELSE CartResult(subtotal, AutoBest(D, U, cartItems, userId), <<>>, Null)

\* DiscountService.calculateShippingCost: exact lookup of the raw string
DS_calculateShippingCost(state) ==
  IF state.cased = "title" /\ ~state.padded
    THEN CASE state.text = "tamil nadu" -> 80
           [] state.text \in {"kerala", "karnataka", "andhra pradesh", "telangana"} -> 100
           [] OTHER -> 200
    ELSE 200

RECURSIVE ProductLevel(_, _, _, _)
ProductLevel(D, U, cartItems, userId) ==
  IF cartItems = <<>> THEN <<>>
  ELSE
    LET item == Head(cartItems)
        pd == calculateProductDiscount(D, U, item.productId, userId)
        rest == ProductLevel(D, U, Tail(cartItems), userId)
    IN IF pd.hasDiscount
         THEN <<Descriptor(pd.discountType, pd.bestDiscount, Null, item.productId,
                           pd.discountAmount * item.quantity)>> \o rest
         ELSE rest

Totals(subtotal, totalDiscount, shipping, finalTotal, applied, errors) ==
  [subtotal |-> subtotal, totalDiscount |-> totalDiscount, shipping |-> shipping,
   finalTotal |-> finalTotal, appliedDiscounts |-> applied, errors |-> errors]

\* the definition of calculateFinalAmountWithDiscounts that is in effect
\* (the later of the two in the class body)
calculateFinalAmountWithDiscounts(D, U, cartData, userId, discountCode) ==
  LET items == [i \in 1..Len(cartData.cartItems) |->
                  [product |-> Product(cartData.cartItems[i].productId),
                   productId |-> cartData.cartItems[i].productId,
                   quantity |-> cartData.cartItems[i].quantity]]
      subtotal == CartSubtotal(items)
      validation == validateDiscount(D, U, discountCode, userId, subtotal)
      coupon == IF discountCode # Null /\ validation.isValid
                  THEN <<Descriptor("CODE", validation.discount.id, Null, Null,
                                    validation.discount.discountAmount)>>
                  ELSE <<>>
      errors == IF discountCode # Null /\ ~validation.isValid
                  THEN <<validation.message>> ELSE <<>>
      applied == coupon \o ProductLevel(D, U, items, userId)
      totalDiscount == SumSeq(Amounts(applied))
      shippingCost == DS_calculateShippingCost(cartData.shippingState)
  IN Totals(subtotal, totalDiscount, shippingCost,
            Max(0, subtotal - totalDiscount + shippingCost), applied, errors)

\* --------------------------------------------------------- OrderService
\* OrderService.calculateShippingCost: trim, lower-case, switch
OS_calculateShippingCost(state) ==
  IF state = NoState THEN 200
  ELSE CASE state.text = "tamil nadu" -> 80
         [] state.text \in {"kerala", "karnataka", "andhra pradesh", "telangana"} -> 100
         [] OTHER -> 200

RuleTotal(rule, basePrice, quantity) ==
  IF rule.priceType = "PERCENTAGE"
    THEN ((basePrice * quantity) * (100 - rule.value)) \div 100
    ELSE rule.value

\* a quotient kept exact, as numerator over denominator
Ratio(num, den) == [num |-> num, den |-> den]

\* calculateItemQuantityPrice taking the qualifying rule with the highest
\* threshold instead of the cheapest total
calculateItemQuantityPrice_highestTier(subcategoryId, basePrice, quantity) ==
  LET baseline == basePrice * quantity
      rules == IF subcategoryId = Null THEN {}
               ELSE {r \in QuantityPrices : /\ r.subcategoryId = subcategoryId
                                            /\ r.isActive
                                            /\ r.quantity <= quantity}
      bestTotal == IF rules = {} THEN baseline
                   ELSE RuleTotal(CHOOSE r \in rules : \A o \in rules : o.quantity <= r.quantity,
                                  basePrice, quantity)
  IN [originalPrice |-> baseline, finalPrice |-> bestTotal,
      totalSavings |-> baseline - bestTotal,
      pricePerItem |-> Ratio(bestTotal, quantity)]

calculateItemQuantityPrice(subcategoryId, basePrice, quantity) ==
  LET baseline == basePrice * quantity
      rules == IF subcategoryId = Null THEN {}
               ELSE {r \in QuantityPrices : /\ r.subcategoryId = subcategoryId
                                            /\ r.isActive
                                            /\ r.quantity <= quantity}
      candidates == {baseline} \cup {RuleTotal(r, basePrice, quantity) : r \in rules}
      bestTotal == CHOOSE t \in candidates : \A c \in candidates : t <= c
  IN [originalPrice |-> baseline, finalPrice |-> bestTotal,
      totalSavings |-> baseline - bestTotal,
      pricePerItem |-> IF subcategoryId = Null THEN Ratio(basePrice, 1)
                       ELSE Ratio(bestTotal, quantity)]

BasePrice(item) ==
  IF item.productVariantId # Null /\ Variant(item.productVariantId).price # 0
    THEN Variant(item.productVariantId).price
    ELSE UnitPrice(Product(item.productId))

\* S is the ProductVariant stock column as read at the time of the call
InsufficientStock(S, orderItems) ==
  \E i \in 1..Len(orderItems) :
    /\ orderItems[i].productVariantId # Null
    /\ S[orderItems[i].productVariantId] < orderItems[i].quantity

OrderTotals(ok, subtotal, discountAmount, shippingCost, totalAmount, applied, discountError) ==
  [ok |-> ok, subtotal |-> subtotal, discountAmount |-> discountAmount,
   shippingCost |-> shippingCost, totalAmount |-> totalAmount,
   appliedDiscounts |-> applied, discountError |-> discountError]

calculateOrderTotals(D, U, S, orderItems, discountCode, shippingState, userId) ==
  IF orderItems = <<>> \/ InsufficientStock(S, orderItems)
    THEN OrderTotals(FALSE, 0, 0, 0, 0, <<>>, <<>>)
  ELSE
    LET lineTotals == [i \in 1..Len(orderItems) |->
                         calculateItemQuantityPrice(
                           Product(orderItems[i].productId).subcategoryId,
                           BasePrice(orderItems[i]),
                           orderItems[i].quantity).finalPrice]
        subtotal == SumSeq(lineTotals)
        cartItems == [i \in 1..Len(orderItems) |->
                        [product |-> Product(orderItems[i].productId),
                         quantity |-> orderItems[i].quantity,
                         productId |-> orderItems[i].productId]]
        discountResult == calculateCartDiscounts(D, U, cartItems, userId, discountCode)
        discountAmount == IF discountCode # Null THEN discountResult.totalDiscount ELSE 0
        applied == IF discountCode # Null THEN discountResult.appliedDiscounts ELSE <<>>
        discountError == IF discountCode # Null THEN discountResult.errors ELSE <<>>
        shippingCost == OS_calculateShippingCost(shippingState)
    IN OrderTotals(TRUE, subtotal, discountAmount, shippingCost,
                   subtotal - discountAmount + shippingCost, applied, discountError)

\* RazorpayService.createOrder: the amount it sends to the gateway
RZ_createOrder(amount) == IF amount < 1000 THEN amount * 100 ELSE amount

\* The second OrderService in the repository: its quote computes the totals
\* on the server and throws when the coupon failed validation ...
Quote_initiateRazorpayPayment(D, U, S, orderItems, discountCode, state, userId) ==
  LET totals == calculateOrderTotals(D, U, S, orderItems, discountCode, state, userId)
  IN IF state = NoState \/ ~totals.ok THEN [outcome |-> "error", discount |-> 0]
     ELSE IF totals.discountError # <<>> THEN [outcome |-> "aborted", discount |-> 0]
     ELSE [outcome |-> "proceeds", discount |-> totals.discountAmount]

\* ... while its confirm, after a valid signature, recomputes the totals and
\* creates the order with whatever discount they hold
Confirm_verifyAndCreateOrder(D, U, S, orderItems, discountCode, state, userId) ==
  LET totals == calculateOrderTotals(D, U, S, orderItems, discountCode, state, userId)
  IN IF ~totals.ok THEN [outcome |-> "error", discount |-> 0]
     ELSE [outcome |-> "created", discount |-> totals.discountAmount]

\* the confirm of services/orderService.js, after a valid signature: a
\* failed discount calculation is logged and the order is created
Named_verifyAndCreateOrder(D, U, orderItems, discountCode, state, userId) ==
  LET t == calculateFinalAmountWithDiscounts(
             D, U, [cartItems |-> orderItems, shippingState |-> state], userId, discountCode)
  IN [outcome |-> "created", discount |-> t.totalDiscount]

\* ----------------------------------------------------------------- state
VARIABLES
  discounts,   \* Discount table: id -> row
  usages,      \* DiscountUsage table: sequence of rows
  orders,      \* Order table: sequence of rows, the order id is the index
  stock,       \* ProductVariant.stock: variant id -> integer
  pc,          \* per request handler: the await it is suspended at
  req,         \* per request handler: the request it is serving
  loc,         \* per request handler: its local variables
  started,     \* number of requests accepted so far
  lastCall     \* the last read-only service call and what it returned

persisted == <<discounts, usages, orders, stock>>
vars == <<discounts, usages, orders, stock, pc, req, loc, started, lastCall>>

NoReq ==
  [op |-> "none", userId |-> Null, orderItems |-> <<>>, discountCode |-> Null,
   state |-> NoState, quote |-> "missing", orderId |-> 0, discountId |-> Null]

NoLoc ==
  [subtotal |-> 0, totalDiscount |-> 0, shipping |-> 0, finalTotal |-> 0,
   applied |-> <<>>, orderId |-> 0, i |-> 0, quoted |-> 0, gateway |-> 0,
   outcome |-> "none"]

NoCall == [fn |-> "none", args |-> <<>>, result |-> <<>>]

Init ==
  /\ discounts \in Catalogues
  /\ usages = <<>>
  /\ orders = <<>>
  /\ stock = [v \in VariantIds |-> InitialStock]
  /\ pc = [p \in Procs |-> "idle"]
  /\ req = [p \in Procs |-> NoReq]
  /\ loc = [p \in Procs |-> NoLoc]
  /\ started = 0
  /\ lastCall = NoCall

Accept(p) ==
  /\ pc[p] = "idle"
  /\ started < MaxRequests
  /\ started' = started + 1

\* the handler returns (outcome "ok") or throws (outcome "error"); its
\* request and locals are gone
Return(p, outcome) ==
  /\ pc' = [pc EXCEPT ![p] = "idle"]
  /\ req' = [req EXCEPT ![p] = NoReq]
  /\ loc' = [loc EXCEPT ![p] = [NoLoc EXCEPT !.outcome = outcome]]

\* ------------------------------------------- initiateRazorpayPayment
\* what the client puts in totalAmountRupees (totalAmountPaise is 100 times
\* it): nothing, the total the server would compute now, or another amount
ClientQuotes == {"missing", "server", "other"}

ClientRupees(quote, D, U, items, state, userId, code) ==
  CASE quote = "missing" -> 0
    [] quote = "server" ->
         calculateFinalAmountWithDiscounts(
           D, U, [cartItems |-> items, shippingState |-> state], userId, code).finalTotal
    [] OTHER -> 1

initiateRazorpayPayment(p) ==
  /\ Accept(p)
  /\ \E u \in Users, items \in Carts, code \in Codes,
        state \in ShipStates \cup {NoState}, quote \in ClientQuotes :
       LET rupees == ClientRupees(quote, discounts, usages, items, state, u, code)
           r == [NoReq EXCEPT !.op = "online", !.userId = u, !.orderItems = items,
                              !.discountCode = code, !.state = state, !.quote = quote]
       IN IF state = NoState \/ rupees = 0
            THEN Return(p, "error")
            ELSE /\ req' = [req EXCEPT ![p] = r]
                 /\ pc' = [pc EXCEPT ![p] = "paying"]
                 /\ loc' = [loc EXCEPT ![p] =
                              [NoLoc EXCEPT !.quoted = rupees,
                                            !.gateway = RZ_createOrder(rupees * 100)]]
  /\ UNCHANGED <<persisted, lastCall>>

\* ---------------------------------------------- verifyAndCreateOrder
\* V_Compute with the stock taken before the signature is looked at
V_Compute_writesFirst(p) ==
  /\ pc[p] = "paying"
  /\ \E signatureValid \in BOOLEAN :
       IF ~signatureValid
         THEN /\ Return(p, "Payment verification failed")
              /\ stock' = [v \in DOMAIN stock |-> 0]
              /\ UNCHANGED <<discounts, usages, orders>>
         ELSE LET t == calculateFinalAmountWithDiscounts(
                         discounts, usages,
                         [cartItems |-> req[p].orderItems, shippingState |-> req[p].state],
                         req[p].userId, req[p].discountCode)
              IN /\ pc' = [pc EXCEPT ![p] = "v_create"]
                 /\ loc' = [loc EXCEPT ![p].subtotal = t.subtotal,
                                       ![p].totalDiscount = t.totalDiscount,
                                       ![p].shipping = t.shipping,
                                       ![p].finalTotal = t.finalTotal,
                                       ![p].applied = t.appliedDiscounts]
                 /\ UNCHANGED <<req, persisted>>
  /\ UNCHANGED <<started, lastCall>>

\* signature check, then calculateFinalAmountWithDiscounts
V_Compute(p) ==
  /\ pc[p] = "paying"
  /\ \E signatureValid \in BOOLEAN :
       IF ~signatureValid
         THEN Return(p, "Payment verification failed")
         ELSE LET t == calculateFinalAmountWithDiscounts(
                         discounts, usages,
                         [cartItems |-> req[p].orderItems, shippingState |-> req[p].state],
                         req[p].userId, req[p].discountCode)
              IN /\ pc' = [pc EXCEPT ![p] = "v_create"]
                 /\ loc' = [loc EXCEPT ![p].subtotal = t.subtotal,
                                       ![p].totalDiscount = t.totalDiscount,
                                       ![p].shipping = t.shipping,
                                       ![p].finalTotal = t.finalTotal,
                                       ![p].applied = t.appliedDiscounts]
                 /\ UNCHANGED req
  /\ UNCHANGED <<persisted, started, lastCall>>

OrderRow(userId, totalAmount, subtotal, discount, shippingCost, paymentStatus, method, items) ==
  [userId |-> userId, totalAmount |-> totalAmount, subtotal |-> subtotal,
   discount |-> discount, shippingCost |-> shippingCost, status |-> "CONFIRMED",
   paymentStatus |-> paymentStatus, paymentMethod |-> method, orderItems |-> items,
   phonepeTransactionId |-> Null]

V_Create(p) ==
  /\ pc[p] = "v_create"
  /\ orders' = Append(orders,
       OrderRow(req[p].userId, loc[p].finalTotal, loc[p].subtotal,
                loc[p].totalDiscount, loc[p].shipping, "PAID", "ONLINE",
                req[p].orderItems))
  /\ loc' = [loc EXCEPT ![p].orderId = Len(orders) + 1, ![p].i = 1]
  /\ pc' = [pc EXCEPT ![p] = "v_stock"]
  /\ UNCHANGED <<discounts, usages, stock, req, started, lastCall>>

\* productVariant.update({stock: {decrement: quantity}}) for one item
Decrement(S, item) ==
  IF item.productVariantId # Null
    THEN [S EXCEPT ![item.productVariantId] = @ - item.quantity]
    ELSE S

V_Stock(p) ==
  /\ pc[p] = "v_stock"
  /\ stock' = Decrement(stock, req[p].orderItems[loc[p].i])
  /\ IF loc[p].i < Len(req[p].orderItems)
       THEN /\ loc' = [loc EXCEPT ![p].i = @ + 1]
            /\ UNCHANGED <<pc, req>>
       ELSE /\ loc' = [loc EXCEPT ![p].i = 1]
            /\ pc' = [pc EXCEPT ![p] = "v_usage"]
            /\ UNCHANGED req
  /\ UNCHANGED <<discounts, usages, orders, started, lastCall>>

UsageRow(discountId, userId, orderId, discountAmount) ==
  [discountId |-> discountId, userId |-> userId, orderId |-> orderId,
   discountAmount |-> discountAmount]

\* the storage accepts a DiscountUsage row only if no row has its
\* (discountId, orderId) pair
UsageInsertAllowed(U, discountId, orderId) ==
  ~\E k \in 1..Len(U) : U[k].discountId = discountId /\ U[k].orderId = orderId

\* V_UsageRow with the try block closed after discountUsage.create, so the
\* counter update runs even when the insert was rejected
V_UsageRow_countsAnyway(p) ==
  /\ pc[p] = "v_usage"
  /\ IF loc[p].i > Len(loc[p].applied)
       THEN /\ Return(p, "ok")
            /\ UNCHANGED usages
       ELSE LET desc == loc[p].applied[loc[p].i] IN
            IF desc.discountId = Null
              THEN /\ loc' = [loc EXCEPT ![p].i = @ + 1]
                   /\ UNCHANGED <<pc, req, usages>>
              ELSE /\ usages' =
                        IF /\ desc.discountId \in DOMAIN discounts
                           /\ UsageInsertAllowed(usages, desc.discountId, loc[p].orderId)
                          THEN Append(usages,
                                 UsageRow(desc.discountId, req[p].userId,
                                          loc[p].orderId, desc.amount))
                          ELSE usages
                   /\ pc' = [pc EXCEPT ![p] = "v_count"]
                   /\ UNCHANGED <<loc, req>>
  /\ UNCHANGED <<discounts, orders, stock, started, lastCall>>

\* one turn of the loop over appliedDiscounts: discountUsage.create; a
\* rejected insert (the pair has its row, or the discount is gone) is caught
\* and the loop moves on
V_UsageRow(p) ==
  /\ pc[p] = "v_usage"
  /\ IF loc[p].i > Len(loc[p].applied)
       THEN /\ Return(p, "ok")
            /\ UNCHANGED usages
       ELSE LET desc == loc[p].applied[loc[p].i] IN
            IF desc.discountId # Null
               /\ desc.discountId \in DOMAIN discounts
               /\ UsageInsertAllowed(usages, desc.discountId, loc[p].orderId)
              THEN /\ usages' = Append(usages,
                        UsageRow(desc.discountId, req[p].userId,
                                 loc[p].orderId, desc.amount))
                   /\ pc' = [pc EXCEPT ![p] = "v_count"]
                   /\ UNCHANGED <<loc, req>>
              ELSE /\ loc' = [loc EXCEPT ![p].i = @ + 1]
                   /\ UNCHANGED <<pc, req, usages>>
  /\ UNCHANGED <<discounts, orders, stock, started, lastCall>>

\* discount.update({usedCount: {increment: 1}, totalDiscounts: {increment: amount}});
\* on a discount that is gone the update throws and changes nothing
IncrementUsage(D, discountId, amount) ==
  IF discountId \in DOMAIN D
    THEN [D EXCEPT ![discountId].usedCount = @ + 1,
                   ![discountId].totalDiscounts = @ + amount]
    ELSE D

\* V_UsageCount without the catch around the counter update: a failed update
\* fails the request
V_UsageCount_failsOrder(p) ==
  /\ pc[p] = "v_count"
  /\ LET desc == loc[p].applied[loc[p].i] IN
     \E storageOk \in BOOLEAN :
       IF storageOk
         THEN /\ discounts' = IncrementUsage(discounts, desc.discountId, desc.amount)
              /\ loc' = [loc EXCEPT ![p].i = @ + 1]
              /\ pc' = [pc EXCEPT ![p] = "v_usage"]
              /\ UNCHANGED req
         ELSE /\ Return(p, "error")
              /\ UNCHANGED discounts
  /\ UNCHANGED <<usages, orders, stock, started, lastCall>>

V_UsageCount(p) ==
  /\ pc[p] = "v_count"
  /\ LET desc == loc[p].applied[loc[p].i] IN
     \E storageOk \in BOOLEAN :
       discounts' = IF storageOk THEN IncrementUsage(discounts, desc.discountId, desc.amount)
                                 ELSE discounts
  /\ loc' = [loc EXCEPT ![p].i = @ + 1]
  /\ pc' = [pc EXCEPT ![p] = "v_usage"]
  /\ UNCHANGED <<usages, orders, stock, req, started, lastCall>>

\* ---------------------------------------------------- createCODOrder
\* the column default an order row gets for `discount`: createCODOrder
\* passes totals.couponDiscount, a field calculateOrderTotals never sets
DefaultDiscount == 0

\* field validation, then calculateOrderTotals(orderItems, couponCode)
C_Compute(p) ==
  /\ Accept(p)
  /\ \E u \in Users, items \in Carts, code \in Codes, state \in ShipStates \cup {NoState} :
       LET t == calculateOrderTotals(discounts, usages, stock, items, code, NoState, Null)
           r == [NoReq EXCEPT !.op = "cod", !.userId = u, !.orderItems = items,
                              !.discountCode = code, !.state = state]
       IN IF state = NoState \/ ~t.ok
            THEN Return(p, "error")
            ELSE /\ req' = [req EXCEPT ![p] = r]
                 /\ pc' = [pc EXCEPT ![p] = "c_create"]
                 /\ loc' = [loc EXCEPT ![p] =
                              [NoLoc EXCEPT !.subtotal = t.subtotal,
                                            !.totalDiscount = t.discountAmount,
                                            !.shipping = t.shippingCost,
                                            !.finalTotal = t.totalAmount,
                                            !.applied = t.appliedDiscounts]]
  /\ UNCHANGED <<persisted, lastCall>>

C_Create(p) ==
  /\ pc[p] = "c_create"
  /\ orders' = Append(orders,
       OrderRow(req[p].userId, loc[p].finalTotal, loc[p].subtotal,
                DefaultDiscount, loc[p].shipping, "PENDING", "COD",
                req[p].orderItems))
  /\ loc' = [loc EXCEPT ![p].orderId = Len(orders) + 1, ![p].i = 1]
  /\ pc' = [pc EXCEPT ![p] = "c_stock"]
  /\ UNCHANGED <<discounts, usages, stock, req, started, lastCall>>

\* the stock loop; totals.coupon is never set, so no usage is recorded
C_Stock(p) ==
  /\ pc[p] = "c_stock"
  /\ stock' = Decrement(stock, req[p].orderItems[loc[p].i])
  /\ IF loc[p].i < Len(req[p].orderItems)
       THEN /\ loc' = [loc EXCEPT ![p].i = @ + 1]
            /\ UNCHANGED <<pc, req>>
       ELSE Return(p, "ok")
  /\ UNCHANGED <<discounts, usages, orders, started, lastCall>>

\* ------------------------------------------------------ applyDiscount
ApplyRejected(D, U, O, orderId, discountId, userId) ==
  \/ discountId \notin DOMAIN D
  \/ ~D[discountId].isActive
  \/ Now < D[discountId].validFrom \/ Now > D[discountId].validUntil
  \/ D[discountId].usageLimit # 0 /\ D[discountId].usedCount >= D[discountId].usageLimit
  \/ D[discountId].perUserLimit > 0
       /\ UserUsageCount(U, discountId, userId) >= D[discountId].perUserLimit
  \/ \E k \in 1..Len(U) : U[k].discountId = discountId /\ U[k].orderId = orderId
  \/ orderId \notin 1..Len(O)
  \/ D[discountId].userType # Null /\ Role(O[orderId].userId) # D[discountId].userType
  \/ O[orderId].subtotal < D[discountId].minOrderAmount

ApplyAmount(D, O, orderId, discountId) ==
  IF D[discountId].discountType = "PERCENTAGE"
    THEN LET pct == PercentOf(O[orderId].subtotal, D[discountId].discountValue)
         IN IF D[discountId].maxDiscount # 0 /\ pct > D[discountId].maxDiscount
              THEN D[discountId].maxDiscount ELSE pct
    ELSE D[discountId].discountValue

\* every read and check up to the computed discountAmount
A_Check(p) ==
  /\ Accept(p)
  /\ \E orderId \in 0..Len(orders), discountId \in DiscountIds, u \in Users :
       LET r == [NoReq EXCEPT !.op = "apply", !.userId = u, !.orderId = orderId,
                              !.discountId = discountId]
       IN IF ApplyRejected(discounts, usages, orders, orderId, discountId, u)
            THEN Return(p, "error")
            ELSE /\ req' = [req EXCEPT ![p] = r]
                 /\ pc' = [pc EXCEPT ![p] = "a_order"]
                 /\ loc' = [loc EXCEPT ![p] =
                              [NoLoc EXCEPT !.orderId = orderId,
                                            !.totalDiscount =
                                              ApplyAmount(discounts, orders, orderId, discountId)]]
  /\ UNCHANGED <<persisted, lastCall>>

\* order.update({discount: {increment}, totalAmount: {decrement}})
A_UpdateOrder(p) ==
  /\ pc[p] = "a_order"
  /\ orders' = [orders EXCEPT ![loc[p].orderId].discount = @ + loc[p].totalDiscount,
                              ![loc[p].orderId].totalAmount = @ - loc[p].totalDiscount]
  /\ pc' = [pc EXCEPT ![p] = "a_usage"]
  /\ UNCHANGED <<discounts, usages, stock, req, loc, started, lastCall>>

A_CreateUsage(p) ==
  /\ pc[p] = "a_usage"
  /\ IF UsageInsertAllowed(usages, req[p].discountId, loc[p].orderId)
       THEN /\ usages' = Append(usages,
                 UsageRow(req[p].discountId, req[p].userId, loc[p].orderId,
                          loc[p].totalDiscount))
            /\ pc' = [pc EXCEPT ![p] = "a_count"]
            /\ UNCHANGED <<loc, req>>
       ELSE /\ Return(p, "error")
            /\ UNCHANGED usages
  /\ UNCHANGED <<discounts, orders, stock, started, lastCall>>

A_UpdateDiscount(p) ==
  /\ pc[p] = "a_count"
  /\ discounts' = IncrementUsage(discounts, req[p].discountId, loc[p].totalDiscount)
  /\ Return(p, "ok")
  /\ UNCHANGED <<usages, orders, stock, started, lastCall>>

\* ------------------------------------------------ read-only service calls
\* the cart items the controller hands to calculateCartDiscounts
Enriched(items) ==
  [i \in 1..Len(items) |-> [product |-> Product(items[i].productId),
                            productId |-> items[i].productId,
                            quantity |-> items[i].quantity]]

OrderAmounts == {80, 100}

\* a validateDiscount that counts the validated discount as used
Call_validateDiscount_recordsUse ==
  /\ \E code \in Codes \ {Null}, u \in Users \cup {Null}, amount \in OrderAmounts :
       LET v == validateDiscount(discounts, usages, code, u, amount)
       IN /\ lastCall' = [fn |-> "validateDiscount", args |-> <<code, u, amount>>,
                          result |-> v]
          /\ discounts' = IF v.isValid
                            THEN IncrementUsage(discounts, v.discount.id, 0)
                            ELSE discounts
  /\ UNCHANGED <<usages, orders, stock, pc, req, loc, started>>

Call_validateDiscount ==
  /\ \E code \in Codes \ {Null}, u \in Users \cup {Null}, amount \in OrderAmounts :
       lastCall' = [fn |-> "validateDiscount", args |-> <<code, u, amount>>,
                    result |-> validateDiscount(discounts, usages, code, u, amount)]
  /\ UNCHANGED <<persisted, pc, req, loc, started>>

Call_getProductDiscounts ==
  /\ \E productId \in ProductIds, u \in Users \cup {Null} :
       lastCall' = [fn |-> "getProductDiscounts", args |-> <<productId, u>>,
                    result |-> getProductDiscounts(discounts, usages, productId, u)]
  /\ UNCHANGED <<persisted, pc, req, loc, started>>

Call_calculateCartDiscounts ==
  /\ \E items \in Carts, u \in Users \cup {Null}, code \in Codes :
       lastCall' = [fn |-> "calculateCartDiscounts", args |-> <<items, u, code>>,
                    result |-> calculateCartDiscounts(discounts, usages, Enriched(items), u, code)]
  /\ UNCHANGED <<persisted, pc, req, loc, started>>

\* ------------------------------------------------------- specification
Next ==
  \/ \E p \in Procs : initiateRazorpayPayment(p)
  \/ \E p \in Procs : V_Compute(p)
  \/ \E p \in Procs : V_Create(p)
  \/ \E p \in Procs : V_Stock(p)
  \/ \E p \in Procs : V_UsageRow(p)
  \/ \E p \in Procs : V_UsageCount(p)
  \/ \E p \in Procs : C_Compute(p)
  \/ \E p \in Procs : C_Create(p)
  \/ \E p \in Procs : C_Stock(p)
  \/ \E p \in Procs : A_Check(p)
  \/ \E p \in Procs : A_UpdateOrder(p)
  \/ \E p \in Procs : A_CreateUsage(p)
  \/ \E p \in Procs : A_UpdateDiscount(p)

Spec == Init /\ [][Next]_vars

\* One online checkout racing with any number of read-only service calls:
\* every other request of the budget has already been rejected.
InitCalls ==
  /\ discounts \in Catalogues
  /\ usages = <<>>
  /\ orders = <<>>
  /\ stock = [v \in VariantIds |-> InitialStock]
  /\ pc = [p \in Procs |-> "idle"]
  /\ req = [p \in Procs |-> NoReq]
  /\ loc = [p \in Procs |-> NoLoc]
  /\ started = MaxRequests - 1
  /\ lastCall = NoCall

NextCalls ==
  \/ \E p \in Procs : initiateRazorpayPayment(p)
  \/ \E p \in Procs : V_Compute(p)
  \/ \E p \in Procs : V_Create(p)
  \/ \E p \in Procs : V_Stock(p)
  \/ \E p \in Procs : V_UsageRow(p)
  \/ \E p \in Procs : V_UsageCount(p)
  \/ Call_validateDiscount
  \/ Call_getProductDiscounts
  \/ Call_calculateCartDiscounts

SpecCalls == InitCalls /\ [][NextCalls]_vars

\* ------------------------------------------------- discount management
\* the id prisma gives the next created discount
NewId == "d3"

\* a field the request body leaves out
Absent == -1

\* request bodies of createDiscount: a sitewide discount "NEW"
NewDiscounts ==
  { [discountType |-> type, discountValue |-> value, validFrom |-> from, validUntil |-> 10] :
      type \in {"PERCENTAGE", "FIXED_AMOUNT"}, value \in {0, 50, 150}, from \in {0, 12} }

createDiscount(p) ==
  /\ Accept(p)
  /\ NewId \notin DOMAIN discounts
  /\ \E data \in NewDiscounts :
       IF \/ data.discountValue <= 0
          \/ data.discountType = "PERCENTAGE" /\ data.discountValue > 100
          \/ data.validFrom >= data.validUntil
         THEN /\ Return(p, "error")
              /\ UNCHANGED discounts
         ELSE /\ discounts' =
                   [d \in DOMAIN discounts \cup {NewId} |->
                      IF d = NewId
                        THEN [id |-> NewId, name |-> "NEW",
                              discountType |-> data.discountType,
                              discountValue |-> data.discountValue,
                              productId |-> Null, categoryId |-> Null,
                              subcategoryId |-> Null, minQuantity |-> 0,
                              userType |-> Null, minOrderAmount |-> 0,
                              maxDiscount |-> 0, usageLimit |-> 0, perUserLimit |-> 1,
                              validFrom |-> data.validFrom,
                              validUntil |-> data.validUntil, isActive |-> TRUE,
                              usedCount |-> 0, totalDiscounts |-> 0]
                        ELSE discounts[d]]
              /\ Return(p, "ok")
  /\ UNCHANGED <<usages, orders, stock, lastCall>>

\* request bodies of updateDiscount
Updates ==
  { [discountType |-> type, discountValue |-> value, validFrom |-> from, validUntil |-> until] :
      type \in {Null, "PERCENTAGE"}, value \in {Absent, 0, 150},
      from \in {Absent, 12}, until \in {Absent, 20} }

updateDiscount(p) ==
  /\ Accept(p)
  /\ \E discountId \in DiscountIds \cup {NewId}, updateData \in Updates :
       IF discountId \notin DOMAIN discounts
         THEN /\ Return(p, "error")
              /\ UNCHANGED discounts
         ELSE
           LET discount == discounts[discountId]
               validFrom == IF updateData.validFrom # Absent
                              THEN updateData.validFrom ELSE discount.validFrom
               validUntil == IF updateData.validUntil # Absent
                               THEN updateData.validUntil ELSE discount.validUntil
               badValue ==
                 /\ updateData.discountValue # Absent
                 /\ \/ updateData.discountValue <= 0
                    \/ updateData.discountType = "PERCENTAGE"
                         /\ updateData.discountValue > 100
               badDates ==
                 /\ updateData.validFrom # Absent \/ updateData.validUntil # Absent
                 /\ validFrom >= validUntil
           IN IF badValue \/ badDates
                THEN /\ Return(p, "error")
                     /\ UNCHANGED discounts
                ELSE /\ discounts' =
                          [discounts EXCEPT ![discountId] =
                             [discount EXCEPT
                                !.discountType = IF updateData.discountType # Null
                                                   THEN updateData.discountType ELSE @,
                                !.discountValue = IF updateData.discountValue # Absent
                                                    THEN updateData.discountValue ELSE @,
                                !.validFrom = validFrom,
                                !.validUntil = validUntil]]
                     /\ Return(p, "ok")
  /\ UNCHANGED <<usages, orders, stock, lastCall>>

\* the usage rows that remain when a discount row is deleted: they go with
\* their discount
CascadeDelete(U, discountId) == SelectSeq(U, LAMBDA row : row.discountId # discountId)

deleteDiscount(p) ==
  /\ Accept(p)
  /\ \E discountId \in DiscountIds \cup {NewId} :
       IF discountId \notin DOMAIN discounts \/ discounts[discountId].usedCount > 0
         THEN /\ Return(p, "error")
              /\ UNCHANGED <<discounts, usages>>
         ELSE /\ discounts' = [d \in DOMAIN discounts \ {discountId} |-> discounts[d]]
              /\ usages' = CascadeDelete(usages, discountId)
              /\ Return(p, "ok")
  /\ UNCHANGED <<orders, stock, lastCall>>

\* discount management next to online checkouts
NextAdmin ==
  \/ \E p \in Procs : createDiscount(p)
  \/ \E p \in Procs : updateDiscount(p)
  \/ \E p \in Procs : deleteDiscount(p)
  \/ \E p \in Procs : initiateRazorpayPayment(p)
  \/ \E p \in Procs : V_Compute(p)
  \/ \E p \in Procs : V_Create(p)
  \/ \E p \in Procs : V_Stock(p)
  \/ \E p \in Procs : V_UsageRow(p)
  \/ \E p \in Procs : V_UsageCount(p)

SpecAdmin == Init /\ [][NextAdmin]_vars

\* ------------------------------------------- pricing functions on their own
\* The pricing functions applied to one input each, over the discount tables a
\* shop can hold: the coupon d1 active or not, before, inside or after its
\* window, redeemed once (by u1, for order 1) or never, with or without a
\* usageLimit, of either type and with several caps; the offer d2 scoped to a
\* product, a category or a subcategory, or restricted to a role.
CouponKinds ==
  { [type |-> "FIXED_AMOUNT", maxDiscount |-> 0],
    [type |-> "PERCENTAGE", maxDiscount |-> 0],
    [type |-> "PERCENTAGE", maxDiscount |-> 20],
    [type |-> "PERCENTAGE", maxDiscount |-> 50] }

Windows == { <<0, 10>>, <<7, 10>>, <<0, 3>> }

\* what the one earlier redemption of a coupon of kind k took off
PastAmount(k) == IF k.maxDiscount # 0 THEN k.maxDiscount ELSE 50

PureCoupons ==
  { [Coupon(k.type, 50, k.maxDiscount, limit) EXCEPT
       !.minOrderAmount = 100, !.isActive = active,
       !.validFrom = w[1], !.validUntil = w[2],
       !.usedCount = used, !.totalDiscounts = used * PastAmount(k)] :
      k \in CouponKinds, limit \in {0, 1}, active \in BOOLEAN,
      w \in Windows, used \in {0, 1} }

PureOffers ==
  { ProductOffer(TRUE),
    [ProductOffer(TRUE) EXCEPT !.productId = Null, !.categoryId = "cat2"],
    [ProductOffer(TRUE) EXCEPT !.productId = Null, !.subcategoryId = "sub1"],
    [ProductOffer(TRUE) EXCEPT !.userType = "WHOLESALER"] }

PureCatalogues ==
  { [d \in DiscountIds |-> IF d = "d1" THEN c ELSE o] : c \in PureCoupons, o \in PureOffers }

InitPure ==
  /\ discounts \in PureCatalogues
  /\ LET c == discounts["d1"]
         spent == c.totalDiscounts
     IN IF c.usedCount = 0
          THEN /\ usages = <<>>
               /\ orders = <<>>
               /\ stock = [v \in VariantIds |-> InitialStock]
          ELSE /\ usages = <<UsageRow("d1", "u1", 1, spent)>>
               /\ orders = <<OrderRow("u1", 180 - spent, 100, spent, 80, "PAID", "ONLINE",
                                      <<Item("pA", "v1", 1)>>)>>
               /\ stock = [v \in VariantIds |-> InitialStock - 1]
  /\ pc = [p \in Procs |-> "idle"]
  /\ req = [p \in Procs |-> NoReq]
  /\ loc = [p \in Procs |-> NoLoc]
  /\ started = 0
  /\ lastCall = NoCall

\* a coupon name, a discount id, and a code that names nothing
LookupCodes == {"SAVE", "d1", "NOPE"}

Query_validateDiscount ==
  /\ \E code \in LookupCodes, u \in Users \cup {Null}, amount \in OrderAmounts :
       lastCall' = [fn |-> "validateDiscount", args |-> <<code, u, amount>>,
                    result |-> validateDiscount(discounts, usages, code, u, amount)]
  /\ UNCHANGED <<persisted, pc, req, loc, started>>

\* carts without a variant (no stock to check), one of them reaching the
\* quantity tier of sub1
TierCarts == { <<Item("pA", Null, 1)>>, <<Item("pA", Null, 2)>>,
               <<Item("pA", Null, 2), Item("pB", Null, 1)>> }

Query_calculateOrderTotals ==
  /\ \E items \in TierCarts, code \in Codes, state \in ShipStates \cup {NoState},
        u \in Users \cup {Null} :
       lastCall' = [fn |-> "calculateOrderTotals", args |-> <<items, code, state, u>>,
                    result |-> calculateOrderTotals(discounts, usages, stock, items,
                                                    code, state, u)]
  /\ UNCHANGED <<persisted, pc, req, loc, started>>

\* destination states as a client can type them
TypedStates ==
  { ShipState(text, cased, padded) :
      text \in {"tamil nadu", "kerala", "telangana", "goa"},
      cased \in {"title", "lower", "upper"}, padded \in BOOLEAN } \cup {NoState}

\* the rule of the quote (OrderService) and the rule of the confirmation
\* (DiscountService) on the same state
Query_calculateShippingCost ==
  /\ \E state \in TypedStates :
       lastCall' = [fn |-> "calculateShippingCost", args |-> <<state>>,
                    result |-> [quote |-> OS_calculateShippingCost(state),
                                confirm |-> DS_calculateShippingCost(state)]]
  /\ UNCHANGED <<persisted, pc, req, loc, started>>

\* final totals in rupees
FinalTotals == {0, 5, 9, 10, 80, 280}

\* initiateRazorpayPayment hands createOrder the total in paise
Query_createOrder ==
  /\ \E total \in FinalTotals :
       lastCall' = [fn |-> "createOrder", args |-> <<total>>,
                    result |-> RZ_createOrder(total * 100)]
  /\ UNCHANGED <<persisted, pc, req, loc, started>>

\* the same order data given to the quote and to the confirm
Query_quoteAndConfirm ==
  /\ \E items \in TierCarts, state \in ShipStates, u \in Users :
       lastCall' = [fn |-> "quoteAndConfirm", args |-> <<items, "SAVE", state, u>>,
                    result |->
                      [quote |-> Quote_initiateRazorpayPayment(
                                   discounts, usages, stock, items, "SAVE", state, u),
                       confirm |-> Confirm_verifyAndCreateOrder(
                                     discounts, usages, stock, items, "SAVE", state, u),
                       named |-> Named_verifyAndCreateOrder(
                                   discounts, usages, items, "SAVE", state, u)]]
  /\ UNCHANGED <<persisted, pc, req, loc, started>>

TierSubcategories == {Null, "sub1", "sub2", "sub3"}

TierPrices == {100, 500}

MaxQuantity == 5

Query_calculateItemQuantityPrice ==
  /\ \E sub \in TierSubcategories, basePrice \in TierPrices, quantity \in 1..MaxQuantity :
       lastCall' = [fn |-> "calculateItemQuantityPrice",
                    args |-> <<sub, basePrice, quantity>>,
                    result |-> calculateItemQuantityPrice(sub, basePrice, quantity)]
  /\ UNCHANGED <<persisted, pc, req, loc, started>>

\* discount rows as getProductDiscounts can hand them to
\* getBestProductDiscount
Offer(type, value, maxDiscount, minQuantity) ==
  [ProductOffer(TRUE) EXCEPT !.discountType = type, !.discountValue = value,
                             !.maxDiscount = maxDiscount, !.minQuantity = minQuantity]

Offers ==
  [ pct   |-> Offer("PERCENTAGE", 50, 0, 0),
    cap   |-> Offer("PERCENTAGE", 50, 20, 0),
    fix   |-> Offer("FIXED_AMOUNT", 150, 0, 0),
    half  |-> Offer("FIXED_AMOUNT", 50, 0, 0),
    bulk  |-> Offer("FIXED_AMOUNT", 500, 0, 2),
    bxgy  |-> Offer("BUY_X_GET_Y", 250, 0, 2) ]

OfferLists ==
  {<<>>} \cup { <<a>> : a \in DOMAIN Offers }
         \cup { <<a, b>> : a, b \in DOMAIN Offers }

Lines == { [product |-> Product("pA"), productId |-> "pA", quantity |-> 1],
           [product |-> Product("pA"), productId |-> "pA", quantity |-> 2],
           [product |-> Product("pB"), productId |-> "pB", quantity |-> 1] }

Query_getBestProductDiscount ==
  /\ \E list \in OfferLists, cartItem \in Lines :
       lastCall' = [fn |-> "getBestProductDiscount", args |-> <<list, cartItem>>,
                    result |-> getBestProductDiscount(Offers, list, cartItem)]
  /\ UNCHANGED <<persisted, pc, req, loc, started>>

NextPure ==
  \/ Query_validateDiscount
  \/ Call_getProductDiscounts
  \/ Query_calculateOrderTotals
  \/ Query_calculateShippingCost
  \/ Query_createOrder
  \/ Call_calculateCartDiscounts
  \/ Query_quoteAndConfirm

SpecPure == InitPure /\ [][NextPure]_vars

\* ------------------------------------------ processRefund, deleteOrder
\* An order row that deleteOrder has removed keeps its place in `orders`
\* with this status, so that ids are not reused; every lookup treats it as
\* absent.
Deleted == "DELETED"

Found(O, orderId) == orderId \in 1..Len(O) /\ O[orderId].status # Deleted

Restore(S, item) ==
  IF item.productVariantId # Null
    THEN [S EXCEPT ![item.productVariantId] = @ + item.quantity]
    ELSE S

\* findUnique with its orderItems, then the four checks
R_Check(p) ==
  /\ Accept(p)
  /\ \E orderId \in 1..(Len(orders) + 1) :
       IF \/ ~Found(orders, orderId)
          \/ orders[orderId].paymentStatus # "PAID"
          \/ orders[orderId].status = "REFUNDED"
          \/ orders[orderId].phonepeTransactionId = Null
         THEN Return(p, "error")
         ELSE /\ req' = [req EXCEPT ![p] =
                           [NoReq EXCEPT !.op = "refund", !.orderId = orderId,
                                         !.orderItems = orders[orderId].orderItems]]
              /\ pc' = [pc EXCEPT ![p] = "r_gateway"]
              /\ loc' = [loc EXCEPT ![p] = [NoLoc EXCEPT !.orderId = orderId]]
  /\ UNCHANGED <<persisted, lastCall>>

\* phonepeService.processRefund: the gateway accepts or refuses
R_Gateway(p) ==
  /\ pc[p] = "r_gateway"
  /\ \E success \in BOOLEAN :
       IF success
         THEN /\ pc' = [pc EXCEPT ![p] = "r_update"]
              /\ UNCHANGED <<req, loc>>
         ELSE Return(p, "error")
  /\ UNCHANGED <<persisted, started, lastCall>>

\* order.update({status: 'REFUNDED', paymentStatus: 'REFUNDED'}); it throws
\* when the row is gone
R_Update(p) ==
  /\ pc[p] = "r_update"
  /\ IF Found(orders, loc[p].orderId)
       THEN /\ orders' = [orders EXCEPT ![loc[p].orderId].status = "REFUNDED",
                                        ![loc[p].orderId].paymentStatus = "REFUNDED"]
            /\ IF req[p].orderItems = <<>>
                 THEN Return(p, "ok")
                 ELSE /\ pc' = [pc EXCEPT ![p] = "r_stock"]
                      /\ loc' = [loc EXCEPT ![p].i = 1]
                      /\ UNCHANGED req
       ELSE /\ Return(p, "error")
            /\ UNCHANGED orders
  /\ UNCHANGED <<discounts, usages, stock, started, lastCall>>

\* the stock loop over the items read by the first findUnique
R_Stock(p) ==
  /\ pc[p] = "r_stock"
  /\ stock' = Restore(stock, req[p].orderItems[loc[p].i])
  /\ IF loc[p].i < Len(req[p].orderItems)
       THEN /\ loc' = [loc EXCEPT ![p].i = @ + 1]
            /\ UNCHANGED <<pc, req>>
       ELSE Return(p, "ok")
  /\ UNCHANGED <<discounts, usages, orders, started, lastCall>>

\* findUnique and the status check
D_Check(p) ==
  /\ Accept(p)
  /\ \E orderId \in 1..(Len(orders) + 1) :
       IF ~Found(orders, orderId) \/ orders[orderId].status \in {"SHIPPED", "DELIVERED"}
         THEN Return(p, "error")
         ELSE /\ req' = [req EXCEPT ![p] = [NoReq EXCEPT !.op = "delete", !.orderId = orderId]]
              /\ pc' = [pc EXCEPT ![p] = "d_items"]
              /\ loc' = [loc EXCEPT ![p] = [NoLoc EXCEPT !.orderId = orderId]]
  /\ UNCHANGED <<persisted, lastCall>>

\* orderItem.findMany({where: {orderId}})
D_FindItems(p) ==
  /\ pc[p] = "d_items"
  /\ LET items == IF Found(orders, loc[p].orderId)
                    THEN orders[loc[p].orderId].orderItems ELSE <<>>
     IN /\ req' = [req EXCEPT ![p].orderItems = items]
        /\ pc' = [pc EXCEPT ![p] = IF items = <<>> THEN "d_delete_items" ELSE "d_stock"]
        /\ loc' = [loc EXCEPT ![p].i = 1]
  /\ UNCHANGED <<persisted, started, lastCall>>

D_Stock(p) ==
  /\ pc[p] = "d_stock"
  /\ stock' = Restore(stock, req[p].orderItems[loc[p].i])
  /\ IF loc[p].i < Len(req[p].orderItems)
       THEN /\ loc' = [loc EXCEPT ![p].i = @ + 1]
            /\ UNCHANGED pc
       ELSE /\ pc' = [pc EXCEPT ![p] = "d_delete_items"]
            /\ UNCHANGED loc
  /\ UNCHANGED <<discounts, usages, orders, req, started, lastCall>>

\* orderItem.deleteMany({where: {orderId}})
D_DeleteItems(p) ==
  /\ pc[p] = "d_delete_items"
  /\ orders' = IF Found(orders, loc[p].orderId)
                 THEN [orders EXCEPT ![loc[p].orderId].orderItems = <<>>]
                 ELSE orders
  /\ pc' = [pc EXCEPT ![p] = "d_delete"]
  /\ UNCHANGED <<discounts, usages, stock, req, loc, started, lastCall>>

\* order.delete; it throws when the row is gone
D_Delete(p) ==
  /\ pc[p] = "d_delete"
  /\ IF Found(orders, loc[p].orderId)
       THEN /\ orders' = [orders EXCEPT ![loc[p].orderId].status = Deleted]
            /\ Return(p, "ok")
       ELSE /\ Return(p, "error")
            /\ UNCHANGED orders
  /\ UNCHANGED <<discounts, usages, stock, started, lastCall>>

\* an order paid through the second gateway carries that gateway's
\* transaction id
PhonePeOrder(row) ==
  [row EXCEPT !.phonepeTransactionId = "T1"]

\* the orders a shop can hold for cart [pA x1] shipped to Tamil Nadu: paid
\* online through either gateway or cash on delivery, confirmed or shipped
PlacedOrders ==
  LET items == <<Item("pA", "v1", 1)>>
      online == OrderRow("u1", 180, 100, 0, 80, "PAID", "ONLINE", items)
      cod == OrderRow("u1", 300, 100, 0, 200, "PENDING", "COD", items)
      rows == {online, PhonePeOrder(online), cod}
  IN rows \cup {[r EXCEPT !.status = "SHIPPED"] : r \in rows}

\* one order has been placed and has taken its stock
InitRefund ==
  /\ discounts \in Catalogues
  /\ usages = <<>>
  /\ \E row \in PlacedOrders : orders = <<row>>
  /\ stock = [v \in VariantIds |-> InitialStock - 1]
  /\ pc = [p \in Procs |-> "idle"]
  /\ req = [p \in Procs |-> NoReq]
  /\ loc = [p \in Procs |-> NoLoc]
  /\ started = 0
  /\ lastCall = NoCall

NextRefund ==
  \/ \E p \in Procs : R_Check(p)
  \/ \E p \in Procs : R_Gateway(p)
  \/ \E p \in Procs : R_Update(p)
  \/ \E p \in Procs : R_Stock(p)
  \/ \E p \in Procs : D_Check(p)
  \/ \E p \in Procs : D_FindItems(p)
  \/ \E p \in Procs : D_Stock(p)
  \/ \E p \in Procs : D_DeleteItems(p)
  \/ \E p \in Procs : D_Delete(p)

SpecRefund == InitRefund /\ [][NextRefund]_vars

\* --------------------------- the two per-line functions that read no
\* discount state: quantity-tier pricing and the best-discount scan
NextLines ==
  \/ Query_calculateItemQuantityPrice
  \/ Query_getBestProductDiscount

SpecLines == Init /\ [][NextLines]_vars

\* ================================================================ claims
RowsOf(d) == {k \in 1..Len(usages) : usages[k].discountId = d}

AmountOfRows(d) ==
  SumSeq([k \in 1..Len(usages) |->
            IF usages[k].discountId = d THEN usages[k].discountAmount ELSE 0])

Quiescent == \A p \in Procs : pc[p] \in {"idle", "paying"}

\* C1: a discount with a usageLimit is never redeemed more often than the
\* limit: usedCount <= usageLimit in every state, whatever the interleaving
\* of the checkouts that redeem it.
C1_UsedCountWithinLimit ==
  \A d \in DiscountIds :
    discounts[d].usageLimit # 0 => discounts[d].usedCount <= discounts[d].usageLimit

\* C2: a variant's stock never becomes negative, whatever the interleaving of
\* the order creations that take from it.
C2_StockNeverNegative == \A v \in VariantIds : stock[v] >= 0

\* C3: once no usage recording is under way, every discount's usedCount is
\* the number of its DiscountUsage rows and its totalDiscounts the sum of
\* their discountAmount, also after a recording that failed part-way.
C3_CountersMatchRows ==
  Quiescent =>
    \A d \in DiscountIds :
      /\ discounts[d].usedCount = Cardinality(RowsOf(d))
      /\ discounts[d].totalDiscounts = AmountOfRows(d)

\* C4: a user never has more DiscountUsage rows for a discount than the
\* discount's perUserLimit.
C4_PerUserLimit ==
  \A d \in DiscountIds, u \in Users :
    UserUsageCount(usages, d, u) <= discounts[d].perUserLimit

C6_OrderFieldsAddUp ==
  \A o \in 1..Len(orders) :
    orders[o].totalAmount = orders[o].subtotal - orders[o].discount + orders[o].shippingCost

\* C7: with nothing else touching the catalogue or the discounts, the total
\* quoted by initiateRazorpayPayment and handed to the gateway (in paise) is
\* the totalAmount verifyAndCreateOrder persists.
C7_QuoteEqualsPersisted ==
  \A p \in Procs :
    (pc[p] \in {"v_stock", "v_usage", "v_count"} /\ started = 1) =>
      /\ orders[loc[p].orderId].totalAmount = loc[p].quoted
      /\ loc[p].gateway = 100 * orders[loc[p].orderId].totalAmount

IsCartCall == lastCall.fn = "calculateCartDiscounts"

CountOfType(descs, type) ==
  Cardinality({k \in 1..Len(descs) : descs[k].type = type})

\* C8: a calculateCartDiscounts result for a supplied coupon code holds no
\* PRODUCT_LEVEL descriptor and at most one ORDER_LEVEL descriptor.
C8_CouponExcludesProductLevel ==
  (IsCartCall /\ lastCall.args[3] # Null) =>
    /\ CountOfType(lastCall.result.appliedDiscounts, "PRODUCT_LEVEL") = 0
    /\ CountOfType(lastCall.result.appliedDiscounts, "ORDER_LEVEL") <= 1

\* a coupon call on a cart whose first product has eligible discounts
C8_Witness ==
  /\ IsCartCall
  /\ lastCall.args[3] = "SAVE"
  /\ getProductDiscounts(discounts, usages, lastCall.args[1][1].productId,
                         lastCall.args[2]) # <<>>
  /\ CountOfType(lastCall.result.appliedDiscounts, "ORDER_LEVEL") = 1

\* C9: the final total of Order Total Assembly is
\* max(0, subtotal - discountAmount + shippingCost).
C9_FinalTotalFloored ==
  \A p \in Procs :
    pc[p] \in {"v_create", "c_create"} =>
      loc[p].finalTotal =
        Max(0, loc[p].subtotal - loc[p].totalDiscount + loc[p].shipping)

\* C10: a step of validateDiscount, getProductDiscounts or
\* calculateCartDiscounts (a step that moves no request handler) leaves the
\* Discount, DiscountUsage, Order and stock tables as they were, so a
\* repeated call on unchanged state returns what the first returned.
C10_ReadsChangeNothing ==
  [][(pc' = pc /\ req' = req /\ loc' = loc /\ started' = started)
       => persisted' = persisted]_vars

\* a coupon has been validated successfully and is still unused
C10_Witness ==
  /\ lastCall.fn = "validateDiscount"
  /\ lastCall.result.isValid
  /\ discounts[lastCall.result.discount.id].usedCount = 0
  /\ usages = <<>>

RowsOfOrder(U, orderId) == {k \in 1..Len(U) : U[k].orderId = orderId}

\* C11: when verifyAndCreateOrder or createCODOrder returns an order it
\* created with a positive discount, the order has exactly one DiscountUsage
\* row per applied discount; and no usage row ever names an order that does
\* not exist yet.
C11_UsageRecordedPerOrder ==
  [][ /\ \A p \in Procs :
           (pc[p] \in {"v_usage", "c_stock"} /\ pc'[p] = "idle"
            /\ loc[p].totalDiscount > 0) =>
             Cardinality(RowsOfOrder(usages', loc[p].orderId)) = Len(loc[p].applied)
      /\ \A k \in 1..Len(usages') : usages'[k].orderId \in 1..Len(orders') ]_vars

\* C14: after any sequence of createDiscount and updateDiscount calls every
\* stored discount has discountValue > 0, discountValue <= 100 if it is a
\* PERCENTAGE discount, and validFrom < validUntil.
C14_StoredDiscountsValid ==
  \A d \in DOMAIN discounts :
    /\ discounts[d].discountValue > 0
    /\ discounts[d].discountType = "PERCENTAGE" => discounts[d].discountValue <= 100
    /\ discounts[d].validFrom < discounts[d].validUntil

\* the discount d has been redeemed: it has a usage row, or a checkout has
\* created its order with d among the applied discounts
Redeemed(d) ==
  \/ discounts[d].usedCount > 0
  \/ RowsOf(d) # {}
  \/ \E p \in Procs :
       /\ pc[p] \in {"v_stock", "v_usage", "v_count"}
       /\ \E k \in 1..Len(loc[p].applied) :
            loc[p].applied[k].discountId = d /\ loc[p].applied[k].amount > 0

\* C15: a delete never removes a redeemed discount nor any usage row of a
\* discount with usedCount > 0: only a discount that has never been redeemed
\* leaves the table.
C15_RedeemedDiscountsKept ==
  [][ \A d \in DOMAIN discounts :
        /\ d \notin DOMAIN discounts' => ~Redeemed(d)
        /\ discounts[d].usedCount > 0 =>
             \A k \in RowsOf(d) : \E j \in 1..Len(usages') : usages'[j] = usages[k] ]_vars

C12_ChecksInOrder ==
  lastCall.fn = "validateDiscount" =>
    LET code == lastCall.args[1]
        u == lastCall.args[2]
        amount == lastCall.args[3]
        r == lastCall.result
        named == {d \in DOMAIN discounts : discounts[d].name = code \/ d = code}
        Fails(text) == ~r.isValid /\ r.message.text = text
    IN IF named = {} THEN Fails("Invalid discount code")
       ELSE \A d \in named :
         LET row == discounts[d] IN
         IF ~row.isActive THEN Fails("Discount is not active")
         ELSE IF Now < row.validFrom THEN Fails("Discount not yet valid")
         ELSE IF Now > row.validUntil THEN Fails("Discount has expired")
         ELSE IF row.usageLimit # 0 /\ row.usedCount >= row.usageLimit
           THEN Fails("Discount usage limit reached")
         ELSE IF u # Null /\ UserUsageCount(usages, d, u) >= row.perUserLimit
           THEN Fails("You have reached the usage limit for this discount")
         ELSE IF amount < row.minOrderAmount
           THEN Fails("Minimum order amount required")
                /\ r.message.amount = row.minOrderAmount
         ELSE r.isValid

C17_GatewayAmountInPaise ==
  lastCall.fn = "createOrder" => lastCall.result = 100 * lastCall.args[1]

\* C18: the shipping rule trims and ignores case: Tamil Nadu 80; Kerala,
\* Karnataka, Andhra Pradesh, Telangana 100; anything else 200; at quote time
\* and at confirm time alike.
C18_ShippingRule ==
  lastCall.fn = "calculateShippingCost" =>
    LET text == lastCall.args[1].text
        expected ==
          CASE text = "tamil nadu" -> 80
            [] text \in {"kerala", "karnataka", "andhra pradesh", "telangana"} -> 100
            [] OTHER -> 200
    IN /\ lastCall.result.quote = expected
       /\ lastCall.result.confirm = expected

\* C19: getProductDiscounts returns exactly the active discounts inside
\* their window that are scoped to the product, its category, its subcategory
\* or sitewide and that pass the eligibility filter; with no user id the
\* user-scoped checks are skipped.
C19_ProductDiscountScope ==
  lastCall.fn = "getProductDiscounts" =>
    LET product == Product(lastCall.args[1])
        u == lastCall.args[2]
        InScope(row) ==
          \/ row.productId = product.id
          \/ row.categoryId # Null /\ row.categoryId = product.categoryId
          \/ row.subcategoryId # Null /\ row.subcategoryId = product.subcategoryId
          \/ row.productId = Null /\ row.categoryId = Null /\ row.subcategoryId = Null
        Passes(d, row) ==
          /\ (row.userType \notin {Null, "ALL"} /\ u # Null) => Role(u) = row.userType
          /\ u # Null => UserUsageCount(usages, d, u) < row.perUserLimit
          /\ row.usageLimit # 0 => row.usedCount < row.usageLimit
        expected == {d \in DOMAIN discounts :
                       /\ discounts[d].isActive
                       /\ discounts[d].validFrom <= Now /\ Now <= discounts[d].validUntil
                       /\ InScope(discounts[d])
                       /\ Passes(d, discounts[d])}
    IN {lastCall.result[k] : k \in 1..Len(lastCall.result)} = expected

\* C20: in calculateOrderTotals the coupon is validated and its amount
\* computed against the subtotal the totals report (the line totals after
\* quantity-tier pricing).
C20_CouponAgainstReportedSubtotal ==
  (lastCall.fn = "calculateOrderTotals" /\ lastCall.args[2] # Null /\ lastCall.result.ok) =>
    LET v == validateDiscount(discounts, usages, lastCall.args[2], lastCall.args[4],
                              lastCall.result.subtotal)
    IN lastCall.result.discountAmount =
         IF v.isValid THEN v.discount.discountAmount ELSE 0

\* C21: COD and online order creation assemble the totals the same way: two
\* handlers about to write the order row for the same user, items, coupon
\* and shipping state, computed on the same stored state, persist the same
\* subtotal, discount, shippingCost and totalAmount.
C21_SameTotalsOnBothPaths ==
  \A p, q \in Procs :
    ( /\ pc[p] = "v_create" /\ pc[q] = "c_create"
      /\ req[p].userId = req[q].userId
      /\ req[p].orderItems = req[q].orderItems
      /\ req[p].discountCode = req[q].discountCode
      /\ req[p].state = req[q].state ) =>
    /\ loc[p].subtotal = loc[q].subtotal
    /\ loc[p].totalDiscount = DefaultDiscount
    /\ loc[p].shipping = loc[q].shipping
    /\ loc[p].finalTotal = loc[q].finalTotal

\* C28: the totalAmount of a persisted order is never negative, whatever
\* order creations and applyDiscount calls have happened.
C28_TotalAmountNonNegative ==
  \A o \in 1..Len(orders) : orders[o].totalAmount >= 0

\* C26: a verifyAndCreateOrder whose signature check returns false writes
\* nothing: no order row, no stock decrement, no DiscountUsage row, no
\* usedCount increment.
C26_FailedVerificationWritesNothing ==
  [][ \A p \in Procs :
        (pc[p] = "paying" /\ pc'[p] = "idle") =>
          /\ loc'[p].outcome = "Payment verification failed"
          /\ persisted' = persisted ]_vars

\* the only request was an online checkout whose verification failed, and
\* the tables are as they were at the start
C26_Witness ==
  /\ started = 1
  /\ \E p \in Procs : pc[p] = "idle" /\ loc[p].outcome = "Payment verification failed"
  /\ orders = <<>> /\ usages = <<>>
  /\ \A v \in VariantIds : stock[v] = InitialStock
  /\ \A d \in DOMAIN discounts : discounts[d].usedCount = 0

\* C30: an applyDiscount that raises an error has left the order, the
\* DiscountUsage rows and the discount counters as they were: it fails at
\* its checks, before its first write.
C30_RejectedApplyChangesNothing ==
  [][ \A p \in Procs :
        ( /\ pc'[p] = "idle" /\ loc'[p].outcome = "error"
          /\ req[p].op = "apply" \/ (pc[p] = "idle" /\ started' # started) ) =>
          /\ persisted' = persisted
          /\ pc[p] \notin {"a_usage", "a_count"} ]_vars

\* C22: quote and confirm treat a failed coupon validation alike: when the
\* quote aborts the checkout because the coupon is invalid, the confirm for
\* the same order data does not create an order.
C22_QuoteAndConfirmAgree ==
  lastCall.fn = "quoteAndConfirm" =>
    (lastCall.result.quote.outcome = "aborted" =>
       /\ lastCall.result.confirm.outcome # "created"
       /\ lastCall.result.named.outcome # "created")

\* C23: in coupon mode, when validateDiscount rejects the code,
\* calculateCartDiscounts returns totalDiscount 0, finalTotal equal to the
\* subtotal, no applied discounts and the validation message as its only
\* error; no per-product discount is applied.
C23_RejectedCouponResult ==
  (lastCall.fn = "calculateCartDiscounts" /\ lastCall.args[3] # Null) =>
    LET cartItems == Enriched(lastCall.args[1])
        validation == validateDiscount(discounts, usages, lastCall.args[3],
                                       lastCall.args[2], CartSubtotal(cartItems))
        r == lastCall.result
    IN ~validation.isValid =>
         /\ r.totalDiscount = 0
         /\ r.subtotal = CartSubtotal(cartItems)
         /\ r.finalTotal = r.subtotal
         /\ r.appliedDiscounts = <<>>
         /\ r.errors = <<validation.message>>

\* a rejected coupon on a cart for which a per-product discount was available
C23_Witness ==
  /\ lastCall.fn = "calculateCartDiscounts"
  /\ lastCall.args[3] = "SAVE"
  /\ lastCall.result.errors # <<>>
  /\ AutoBest(discounts, usages, Enriched(lastCall.args[1]), lastCall.args[2]) # <<>>

\* C24: calculateItemQuantityPrice returns as finalPrice the least of the
\* baseline unitPrice*quantity and the totals of the active rules of the
\* subcategory whose threshold is at most the quantity, with totalSavings =
\* baseline - finalPrice >= 0 and pricePerItem = finalPrice / quantity; with
\* no subcategory or no qualifying rule it returns the baseline with zero
\* savings; unit price 500 with rule {5, PERCENTAGE, 20} and quantity 5
\* gives 2500, 2000, 500.
C24_QuantityPriceIsMinimum ==
  lastCall.fn = "calculateItemQuantityPrice" =>
    LET sub == lastCall.args[1]
        unitPrice == lastCall.args[2]
        quantity == lastCall.args[3]
        r == lastCall.result
        baseline == unitPrice * quantity
        qualifying == {q \in QuantityPrices :
                         q.subcategoryId = sub /\ q.isActive /\ q.quantity <= quantity}
        Total(q) == IF q.priceType = "PERCENTAGE"
                      THEN (baseline * (100 - q.value)) \div 100
                      ELSE q.value
    IN /\ r.originalPrice = baseline
       /\ r.finalPrice <= baseline
       /\ \A q \in qualifying : r.finalPrice <= Total(q)
       /\ r.finalPrice = baseline \/ \E q \in qualifying : r.finalPrice = Total(q)
       /\ r.totalSavings = baseline - r.finalPrice
       /\ r.totalSavings >= 0
       /\ r.pricePerItem.num * quantity = r.finalPrice * r.pricePerItem.den
       /\ (sub = Null \/ qualifying = {}) =>
            r.finalPrice = baseline /\ r.totalSavings = 0
       /\ (sub = "sub2" /\ unitPrice = 500 /\ quantity = 5) =>
            r.originalPrice = 2500 /\ r.finalPrice = 2000 /\ r.totalSavings = 500

\* a line on which one qualifying rule is dearer than the baseline and the
\* rule with the highest threshold is not the cheapest
C24_Witness ==
  /\ lastCall.fn = "calculateItemQuantityPrice"
  /\ lastCall.args = <<"sub3", 100, 4>>
  /\ lastCall.result.finalPrice = 360
  /\ lastCall.result.totalSavings = 40

\* C25: getBestProductDiscount skips the discounts whose minQuantity exceeds
\* the line quantity, gives each other candidate its amount (PERCENTAGE:
\* lineTotal*value/100 capped at maxDiscount; FIXED_AMOUNT: min(value,
\* lineTotal); BUY_X_GET_Y: value), returns the first candidate with the
\* greatest amount, none when no amount is positive, and the returned amount
\* never exceeds the line total.
C25_BestProductDiscount ==
  lastCall.fn = "getBestProductDiscount" =>
    LET list == lastCall.args[1]
        cartItem == lastCall.args[2]
        lineTotal == UnitPrice(cartItem.product) * cartItem.quantity
        Kept(i) == Offers[list[i]].minQuantity <= cartItem.quantity
        AmountOf(i) ==
          LET d == Offers[list[i]] IN
          CASE d.discountType = "PERCENTAGE" ->
                 LET pct == (lineTotal * d.discountValue) \div 100
                 IN IF d.maxDiscount # 0 /\ pct > d.maxDiscount THEN d.maxDiscount ELSE pct
            [] d.discountType = "FIXED_AMOUNT" ->
                 IF d.discountValue < lineTotal THEN d.discountValue ELSE lineTotal
            [] OTHER -> d.discountValue
        positive == {i \in 1..Len(list) : Kept(i) /\ AmountOf(i) > 0}
        r == lastCall.result
    IN IF positive = {}
         THEN r.id = Null
         ELSE \E i \in positive :
                /\ \A j \in positive : AmountOf(j) <= AmountOf(i)
                /\ \A j \in positive : j < i => AmountOf(j) < AmountOf(i)
                /\ r.id = list[i]
                /\ r.calculatedAmount = AmountOf(i)
                /\ r.calculatedAmount <= lineTotal

\* C27: whatever orders are placed, refunded and deleted, the stock an order
\* took from a variant is given back at most once: no variant's stock ever
\* exceeds its stock before the orders were placed.
C27_StockRestoredOnce ==
  \A v \in VariantIds : stock[v] <= InitialStock

\* C29: an order is refunded at most once: a processRefund that has passed
\* its checks is the only one for its order, the order is not yet REFUNDED
\* when it calls the gateway, and when it has written the order the order
\* is REFUNDED with paymentStatus REFUNDED.
C29_RefundedOnce ==
  \A p \in Procs :
    /\ pc[p] \in {"r_gateway", "r_update"} =>
         /\ orders[loc[p].orderId].paymentStatus = "PAID"
         /\ orders[loc[p].orderId].status # "REFUNDED"
         /\ \A q \in Procs \ {p} :
              ~(pc[q] \in {"r_gateway", "r_update", "r_stock"}
                /\ loc[q].orderId = loc[p].orderId)
    /\ (pc[p] = "r_stock" /\ Found(orders, loc[p].orderId)) =>
         /\ orders[loc[p].orderId].status = "REFUNDED"
         /\ orders[loc[p].orderId].paymentStatus = "REFUNDED"

====
